---- MODULE Spec2Model ----
(***************************************************************************)
(* Model of ReLM-main/run_multi.py: the multi-task training loop of main() *)
(* (gradient accumulation, evaluation cadence, max-steps stopping, the     *)
(* best_result checkpoint pool) and the noise injector mask_tokens().      *)
(*                                                                         *)
(* Three specifications share the module:                                  *)
(*   Spec       the training run of main() from line 291 on;               *)
(*   SpecMask   one call of mask_tokens() on a bounded batch;              *)
(*   SpecSetup  the start-up and data loading of main().                   *)
(***************************************************************************)
EXTENDS Integers, Sequences, FiniteSets

VARIABLES
    \* ---- main(): configuration after argument processing (lines 125-207)
    gradient_accumulation_steps,  \* args.gradient_accumulation_steps
    num_batches,                  \* len(train_dataloader)
    save_steps,                   \* args.save_steps
    do_eval,                      \* args.do_eval
    max_train_steps,              \* args.max_train_steps after lines 204-207
    num_train_epochs,             \* int(args.num_train_epochs) after lines 204-207
    \* ---- main(): training-loop state (lines 291-469)
    pc,                           \* position of the control flow
    epoch,                        \* index of the outer loop (line 295)
    step,                         \* index of the micro-batch in the epoch (line 299)
    global_step,                  \* line 291 / 346
    opt_steps,                    \* number of optimizer.step() calls (lines 340/343)
    updated,                      \* did the last micro-batch take the branch of line 337
    wrap,                         \* line 293 / 468
    best_result,                  \* line 292: list of (eval_f1, output_model_file)
    files,                        \* checkpoint files present in output_dir
    saved,                        \* every (eval_f1, path) saved so far, in order
    mft,                          \* args.mft
    do_test,                      \* args.do_test
    eval_family,                  \* "csc" | "seq": the class of task_names[0] (lines 262, 471)
    input_ids,                    \* what the local input_ids holds: "none" | "features" | "masked"
    mask_calls,                   \* number of calls of mask_tokens (line 309)
    train_fwd,                    \* number of training forward/backward passes (lines 311-333)
    fwd_seen,                     \* the (kind, input) pairs of all forward passes so far
    training,                     \* model.training: "train" | "eval"
    fwd_modes,                    \* the (kind, model.training) pairs of all forward passes
    grad_window,                  \* micro-batches whose gradients sit in .grad
    consumed,                     \* the window each optimizer.step() used, in order
    eval_results,                 \* the lines of eval_results.txt
    sents,                        \* the content of sents.tp/.fp/.fn/.wp
    \* ---- mask_tokens(): one call (lines 25-49)
    m_pc,                         \* "idle" | "call" | "returned" | "raised"
    m_inputs,                     \* the caller's inputs tensor
    m_targets,                    \* targets
    m_task_ids,                   \* task_ids
    m_mode,                       \* mask_mode
    m_rate,                       \* noise_probability, in percent
    m_out,                        \* the returned tensor
    \* ---- main(): start-up and data loading (lines 127-285, 470-492)
    s_pc,                         \* position of the control flow
    task_names,                   \* args.task_name.lower().split() (line 157)
    do_train,                     \* args.do_train
    freeze_lm,                    \* args.freeze_lm
    print_para_names,             \* args.print_para_names
    s_i,                          \* index of the loop in progress
    task_name,                    \* the local task_name
    processors,                   \* keys of the dict processors, in insertion order
    label_list,                   \* the local label_list
    labels_used,                  \* label list each feature set was built with
    data_task,                    \* task whose dev/test examples are loaded
    requires_grad,                \* p.requires_grad of every named parameter
    events,                       \* what the run has done so far, in order
    rounds,                       \* (kind, data task, decode class) of the rounds run
    s_steps,                      \* training micro-batches processed
    s_error                       \* the exception that ended the run

trainVars == <<gradient_accumulation_steps, num_batches, save_steps, do_eval,
               max_train_steps, num_train_epochs, pc, epoch, step, global_step,
               opt_steps, updated, wrap, best_result, files, saved,
               mft, do_test, eval_family, input_ids, mask_calls, train_fwd,
               fwd_seen, training, fwd_modes, grad_window, consumed,
               eval_results, sents>>
flowVars == <<input_ids, mask_calls, train_fwd, fwd_seen, training, fwd_modes>>
gradVars == <<grad_window, consumed>>
logVars == <<eval_results, sents>>
maskVars == <<m_pc, m_inputs, m_targets, m_task_ids, m_mode, m_rate, m_out>>
setupVars == <<s_pc, task_names, do_train, freeze_lm, print_para_names, s_i,
               task_name, processors, label_list, labels_used, data_task,
               requires_grad, events, rounds, s_steps, s_error>>
vars == <<trainVars, maskVars, setupVars>>

(***************************************************************************)
(* Bounds of the model.                                                    *)
(***************************************************************************)
MaxAccum == 2
MaxBatches == 3
MaxSaveSteps == 2
MaxTrainSteps == 5
MaxEpochHalves == 4
MaxRows == 2
MaxCols == 2
MaxCells == 4
MaxTasks == 2
MaxLabels == 2
MaxNameLen == 3
MaxSetupSteps == 2

\* eval_f1 values an evaluation round can report (result["eval_f1"], line 422/431)
F1Values == {70, 80, 85, 90}

\* line 439: the pool keeps at most this many entries
PoolCapacity == 3

(***************************************************************************)
(* main(): step budget, lines 203-207.                                     *)
(***************************************************************************)
CeilDiv(a, b) == (a + b - 1) \div b

\* line 203: math.ceil(len(train_dataloader) / gradient_accumulation_steps)
NumUpdateStepsPerEpoch(nb, g) == CeilDiv(nb, g)

\* line 205: int(num_train_epochs * num_update_steps_per_epoch), the float
\* num_train_epochs given in halves
DerivedMaxTrainSteps(halves, n) == (halves * n) \div 2

\* line 207: math.ceil(max_train_steps / num_update_steps_per_epoch)
EpochsForMaxSteps(max, n) == CeilDiv(max, n)

(***************************************************************************)
(* main(): the conditions of the training loop.                            *)
(***************************************************************************)
\* line 337
IsUpdateStepEvery(s, g, nb) == TRUE
IsUpdateStepNoTail(s, g, nb) == (s + 1) % g = 0
IsUpdateStep(s, g, nb) == ((s + 1) % g = 0) \/ (s = nb - 1)

\* line 349
ShouldEvaluateAlways(de, gs, ss) == gs % ss = 0
ShouldEvaluate(de, gs, ss) == de /\ (gs % ss = 0)

\* line 467
ReachedMaxStepsStrict(gs, max) == gs > max
ReachedMaxSteps(gs, max) == gs >= max

(***************************************************************************)
(* main(): the data flow of a forward pass and the gradient buffers.       *)
(***************************************************************************)
\* lines 302-309: the inputs of the training forward pass; mask_tokens works
\* on a clone (line 27), so the batch itself is left as it was
TrainInput(mft_on, batch_ids) == IF mft_on THEN "masked" ELSE batch_ids

\* lines 363 and 516: input_ids is bound anew from the evaluation batch
EvalInputStale(batch_ids, local) == IF local = "none" THEN batch_ids ELSE local
EvalInput(batch_ids, local) == batch_ids

\* line 300: model.train(), called at the head of every micro-batch
TrainModeKept(cur) == cur
TrainMode(cur) == "train"

\* lines 359 and 509: model.eval()
EvalMode(cur) == "eval"

\* line 344: optimizer.zero_grad()
ZeroGradMissing(window) == window
ZeroGrad(window) == {}

(***************************************************************************)
(* main(): the files of an evaluation round, lines 399-465 and 555-608.    *)
(***************************************************************************)
\* a line left in eval_results.txt, and the content left in sents.*, by an
\* earlier run in the same output_dir
OldLine == <<"old", 0>>

\* lines 400-415 / 556-571: what a round writes to sents.*, the examples
\* Metrics.csc_compute returned for it
SentsLines(gs) == <<"round", gs>>

\* lines 447-453 / 459-463 (590-596 / 602-606 with step -1): the line written
ResultLine(family, gs, f1) == <<family, gs, f1>>

\* lines 590 and 602: the test round writes str(-1) for the global step
TestStepLabelCurrent(gs) == gs
TestStepLabel(gs) == -1

\* open(output_eval_file, "a")
AppendLineTruncating(old, line) == <<line>>
AppendLine(old, line) == Append(old, line)

\* open(output_tp_file, "w") and its three siblings: the lines of this round
WriteSentsAppending(old, round) == Append(old, round)
WriteSents(old, round) == <<round>>

\* lines 399 / 555: only a CSC-family task writes sents.*
SentsAfterAlways(family, old, round) == WriteSents(old, round)
SentsAfter(family, old, round) ==
    IF family = "csc" THEN WriteSents(old, round) ELSE old

(***************************************************************************)
(* main(): checkpoint retention, lines 434-441.                            *)
(***************************************************************************)
\* line 434: "step-%s_f1-%.2f.bin" % (str(global_step), result["eval_f1"]);
\* the name is determined by, and determines, the pair (step, f1)
CheckpointPathNoStep(gs, f1) == <<0, f1>>
CheckpointPath(gs, f1) == <<gs, f1>>

\* list.sort(key=lambda x: x[0], reverse=True) is stable: entries with equal
\* keys keep their order.  Insert e behind every entry whose key is >= e's.
RECURSIVE InsertByF1(_, _)
InsertByF1(sorted, e) ==
    IF sorted = <<>> THEN <<e>>
    ELSE IF sorted[1][1] >= e[1] THEN <<sorted[1]>> \o InsertByF1(Tail(sorted), e)
    ELSE <<e>> \o sorted

\* the same with e placed in front of the entries of equal key
RECURSIVE InsertByF1Front(_, _)
InsertByF1Front(sorted, e) ==
    IF sorted = <<>> THEN <<e>>
    ELSE IF sorted[1][1] > e[1] THEN <<sorted[1]>> \o InsertByF1Front(Tail(sorted), e)
    ELSE <<e>> \o sorted

RECURSIVE SortByF1Unstable(_)
SortByF1Unstable(pool) ==
    IF pool = <<>> THEN <<>>
    ELSE InsertByF1Front(SortByF1Unstable(SubSeq(pool, 1, Len(pool) - 1)), pool[Len(pool)])

SortByF1None(pool) == pool

\* line 438
RECURSIVE SortByF1(_)
SortByF1(pool) ==
    IF pool = <<>> THEN <<>>
    ELSE InsertByF1(SortByF1(SubSeq(pool, 1, Len(pool) - 1)), pool[Len(pool)])

\* lines 439-440: the pool after "if len(best_result) > 3: best_result.pop()"
PopOverflowNever(pool) == pool
PopOverflowFirst(pool) == IF Len(pool) > PoolCapacity THEN Tail(pool) ELSE pool
PopOverflow(pool) ==
    IF Len(pool) > PoolCapacity THEN SubSeq(pool, 1, Len(pool) - 1) ELSE pool

\* lines 439-441: the files after os.remove(model_to_remove)
RemoveEvictedNever(fs, pool) == fs
RemoveEvicted(fs, pool) ==
    IF Len(pool) > PoolCapacity THEN fs \ {pool[Len(pool)][2]} ELSE fs

\* line 441 raises FileNotFoundError when the file to remove is absent
RemoveFails(fs, pool) ==
    Len(pool) > PoolCapacity /\ pool[Len(pool)][2] \notin fs

(***************************************************************************)
(* mask_tokens(), lines 25-49.                                             *)
(***************************************************************************)
\* token ids: a special token and an ordinary character of the vocabulary,
\* and the id of tokenizer.mask_token (itself a special token)
CLS_ID == 101
MASK_ID == 103
CHAR_ID == 5
Vocab == {CLS_ID, CHAR_ID}

\* tokenizer.get_special_tokens_mask(val, already_has_special_tokens=True):
\* 1 exactly for the ids of the tokenizer's special tokens (line 35)
IsSpecial(tok) == tok \in {CLS_ID, MASK_ID}

\* line 30: inputs.size(), the rows and the positions of a batch
RowsOf(t) == DOMAIN t
ColsOf(t) == DOMAIN t[1]
Modes == {"noerror", "error", "all", "other"}
Rates == {0, 20, 100}

\* lines 40-45: the positions whose probability the mode filter zeroes
ModeFilterSwapped(mode, inp, tgt) ==
    IF mode = "noerror" THEN inp = tgt
    ELSE IF mode = "error" THEN inp # tgt
    ELSE FALSE
ModeFilterNone(mode, inp, tgt) == FALSE
ModeFilter(mode, inp, tgt) ==
    IF mode = "noerror" THEN inp # tgt
    ELSE IF mode = "error" THEN inp = tgt
    ELSE FALSE

\* the matrix without the task filter of line 33
ProbabilityMatrixNoTask(inputs, targets, task_ids, mode, rate) ==
    [i \in RowsOf(inputs) |-> [j \in ColsOf(inputs) |->
        IF IsSpecial(inputs[i][j]) THEN 0
        ELSE IF ModeFilter(mode, inputs[i][j], targets[i][j]) THEN 0
        ELSE rate]]

\* the matrix without the special-token filter of line 39
ProbabilityMatrixNoSpecial(inputs, targets, task_ids, mode, rate) ==
    [i \in RowsOf(inputs) |-> [j \in ColsOf(inputs) |->
        IF task_ids[i] # 1 THEN 0
        ELSE IF ModeFilter(mode, inputs[i][j], targets[i][j]) THEN 0
        ELSE rate]]

\* lines 28-45: probability_matrix[i][j], in percent
ProbabilityMatrix(inputs, targets, task_ids, mode, rate) ==
    [i \in RowsOf(inputs) |-> [j \in ColsOf(inputs) |->
        IF task_ids[i] # 1 THEN 0                             \* line 33
        ELSE IF IsSpecial(inputs[i][j]) THEN 0                \* line 39
        ELSE IF ModeFilter(mode, inputs[i][j], targets[i][j]) THEN 0
        ELSE rate]]

\* line 46: the outcomes torch.bernoulli can produce for a probability
Bernoulli(p) == IF p = 0 THEN {FALSE} ELSE IF p = 100 THEN {TRUE} ELSE BOOLEAN

\* line 47 on the clone of line 27
ApplyMask(inputs, masked_indices) ==
    [i \in RowsOf(inputs) |-> [j \in ColsOf(inputs) |->
        IF masked_indices[i][j] THEN MASK_ID ELSE inputs[i][j]]]

\* line 27: inputs = inputs.clone(); line 47 writes to the copy, so the
\* tensor the caller passed is what it was
CallerTensorAliased(orig, written) == written
CallerTensor(orig, written) == orig

\* the batches of the model: r rows of c token ids, r * c <= MaxCells
Shapes == {sh \in (1..MaxRows) \X (1..MaxCols) : sh[1] * sh[2] <= MaxCells}
Tensors(r, c) == [1..r -> [1..c -> Vocab]]

(***************************************************************************)
(* main(): start-up, lines 127-285 and 470-492.                            *)
(***************************************************************************)
\* lines 127-133: the keys of processors_all
ProcessorsAll == {"sighan", "ecspell", "sghspell", "tnews", "afqmc"}

\* lines 135-136: task_class
TaskClassCsc == {"sighan", "ecspell", "sghspell"}
TaskClassSeq == {"tnews", "afqmc"}

\* the task names a configuration of the model can list
TaskChoices == {"sighan", "tnews", "afqmc", "foo"}
TaskLists == UNION {[1..n -> TaskChoices] : n \in 1..MaxTasks}

\* line 160: task_name not in processors_all
TaskKnownAlways(name) == TRUE
TaskKnown(name) == name \in ProcessorsAll

\* lines 262 and 471: task_names[0]
EvalTaskLast(names) == names[Len(names)]
EvalTask(names) == names[1]

\* lines 265/378/392/399 and 474/535/548/555: task_name in task_class["csc"]
Family(name) == IF name \in TaskClassCsc THEN "csc" ELSE "seq"

\* the labels of the examples of a split: the split carries every label of
\* the task or lacks one of them
LabelSets == {ls \in SUBSET (1..MaxLabels) : Cardinality(ls) >= MaxLabels - 1} \ {{}}

\* InputExample.get_label_list(examples): the distinct labels of the
\* examples given, as a list in increasing order
RECURSIVE GetLabelList(_)
GetLabelList(labels) ==
    IF labels = {} THEN <<>>
    ELSE LET lo == CHOOSE x \in labels : \A y \in labels : x <= y
         IN <<lo>> \o GetLabelList(labels \ {lo})

\* lines 230/239: classifier_params, "qmc_" and "tnews_" written with one
\* letter and the underscore
ClassifierParams == {<<"q", "_">>, <<"t", "_">>}
Alphabet == {"q", "t", "_"}

\* the names of model.named_parameters()
ParamNames == UNION {[1..n -> Alphabet] : n \in 1..MaxNameLen}

\* nd == n, the comparison the comments of lines 232 and 241 ask about
ContainsExact(n, nd) == n = nd

\* `nd in n` on strings: nd occurs in n as a contiguous substring
RECURSIVE Contains(_, _)
Contains(n, nd) ==
    IF Len(nd) > Len(n) THEN FALSE
    ELSE IF SubSeq(n, 1, Len(nd)) = nd THEN TRUE
    ELSE Contains(Tail(n), nd)

\* lines 240-242: requires_grad after the freeze
FreezeExact(rg) ==
    [n \in DOMAIN rg |->
        IF ~(\E nd \in ClassifierParams : ContainsExact(n, nd)) THEN FALSE ELSE rg[n]]
Freeze(rg) ==
    [n \in DOMAIN rg |->
        IF ~(\E nd \in ClassifierParams : Contains(n, nd)) THEN FALSE ELSE rg[n]]

\* the label list each feature set was built with: the training features of
\* a task under the task's name, the dev and test features under "eval", "test"
NoLabels == <<>>
LabelsUnused == [k \in TaskChoices \cup {"eval", "test"} |-> NoLabels]

Ev(kind, what) == <<kind, what>>

SetupIdle ==
    /\ s_pc = "idle"
    /\ task_names = <<>>
    /\ do_train = FALSE
    /\ freeze_lm = FALSE
    /\ print_para_names = FALSE
    /\ s_i = 0
    /\ task_name = "unset"
    /\ processors = <<>>
    /\ label_list = NoLabels
    /\ labels_used = LabelsUnused
    /\ data_task = "unset"
    /\ requires_grad = <<>>
    /\ events = <<>>
    /\ rounds = {}
    /\ s_steps = 0
    /\ s_error = "none"

(***************************************************************************)
(* Initial states.                                                         *)
(***************************************************************************)
MaskIdle ==
    /\ m_pc = "idle"
    /\ m_inputs = <<>>
    /\ m_targets = <<>>
    /\ m_task_ids = <<>>
    /\ m_mode = "noerror"
    /\ m_rate = 20
    /\ m_out = <<>>

\* the state of main() at line 295, for every configuration within the bounds
TrainInit ==
    /\ gradient_accumulation_steps \in 1..MaxAccum
    /\ num_batches \in 1..MaxBatches
    /\ save_steps \in 1..MaxSaveSteps
    /\ do_eval \in BOOLEAN
    /\ \E given \in BOOLEAN, m \in 0..MaxTrainSteps, halves \in 1..MaxEpochHalves :
         LET n == NumUpdateStepsPerEpoch(num_batches, gradient_accumulation_steps) IN
         IF given
         THEN /\ max_train_steps = m
              /\ num_train_epochs = EpochsForMaxSteps(m, n)
         ELSE /\ max_train_steps = DerivedMaxTrainSteps(halves, n)
              /\ num_train_epochs = halves \div 2
    /\ max_train_steps <= MaxTrainSteps
    /\ pc = "epoch"
    /\ epoch = 0
    /\ step = 0
    /\ global_step = 0
    /\ opt_steps = 0
    /\ updated = FALSE
    /\ wrap = FALSE
    /\ best_result = <<>>
    /\ files = {}
    /\ saved = <<>>
    /\ mft \in BOOLEAN
    /\ do_test \in BOOLEAN
    /\ eval_family \in {"csc", "seq"}
    /\ input_ids = "none"
    /\ mask_calls = 0
    /\ train_fwd = 0
    /\ fwd_seen = {}
    \* the mode BertForMultiTask.from_pretrained leaves the model in
    /\ training \in {"train", "eval"}
    /\ fwd_modes = {}
    /\ grad_window = {}
    /\ consumed = <<>>
    \* output_dir holds the files of an earlier run (lines 151-152 keep an
    \* existing directory); a fresh directory behaves as the same run without
    \* the leading old line
    /\ eval_results = <<OldLine>>
    /\ sents = <<OldLine>>

Init == TrainInit /\ MaskIdle /\ SetupIdle

(***************************************************************************)
(* main(): the training loop, lines 295-469.                               *)
(***************************************************************************)
config == <<gradient_accumulation_steps, num_batches, save_steps, do_eval,
            max_train_steps, num_train_epochs, mft, do_test, eval_family>>

\* lines 295-298: the head of "for _ in range(int(args.num_train_epochs))"
EpochStart ==
    /\ pc = "epoch"
    /\ epoch < num_train_epochs
    /\ ~wrap
    /\ step' = 0
    /\ pc' = "batch"
    /\ UNCHANGED <<config, epoch, global_step, opt_steps, updated, wrap,
                   best_result, files, saved, flowVars, gradVars, logVars,
                   maskVars, setupVars>>

\* lines 295/298: the epochs are exhausted, or wrap breaks the outer loop
TrainEnd ==
    /\ pc = "epoch"
    /\ (epoch >= num_train_epochs \/ wrap)
    /\ pc' = IF do_test THEN "test" ELSE "done"                  \* line 470
    /\ UNCHANGED <<config, epoch, step, global_step, opt_steps, updated, wrap,
                   best_result, files, saved, flowVars, gradVars, logVars,
                   maskVars, setupVars>>

\* lines 299-347: forward and backward pass of micro-batch `step`, and the
\* parameter update when line 337 holds
MicroBatch ==
    /\ pc = "batch"
    /\ input_ids' = TrainInput(mft, "features")                 \* lines 302-309
    /\ mask_calls' = IF mft THEN mask_calls + 1 ELSE mask_calls
    /\ train_fwd' = train_fwd + 1                               \* lines 311-333
    /\ fwd_seen' = fwd_seen \cup {<<"train", input_ids'>>}
    /\ training' = TrainMode(training)                          \* line 300
    /\ fwd_modes' = fwd_modes \cup {<<"train", TrainMode(training)>>}
    /\ LET upd == IsUpdateStep(step, gradient_accumulation_steps, num_batches)
           window == grad_window \cup {<<epoch, step>>}          \* line 331/333
       IN
         /\ updated' = upd
         /\ opt_steps' = IF upd THEN opt_steps + 1 ELSE opt_steps
         /\ consumed' = IF upd THEN Append(consumed, window) ELSE consumed
         /\ grad_window' = IF upd THEN ZeroGrad(window) ELSE window
         /\ global_step' = IF upd THEN global_step + 1 ELSE global_step
    /\ pc' = "eval_check"
    /\ UNCHANGED <<config, epoch, step, wrap, best_result, files, saved, logVars,
                   maskVars, setupVars>>

\* lines 349-388: the test of line 349 and, when it holds, the forward
\* passes of the evaluation round
EvalStart ==
    /\ pc = "eval_check"
    /\ ShouldEvaluate(do_eval, global_step, save_steps)
    /\ input_ids' = EvalInput("features", input_ids)            \* line 363
    /\ fwd_seen' = fwd_seen \cup {<<"eval", input_ids'>>}        \* lines 364-369
    /\ training' = EvalMode(training)                           \* line 359
    /\ fwd_modes' = fwd_modes \cup {<<"eval", EvalMode(training)>>}
    /\ pc' = "evaluating"
    /\ UNCHANGED <<config, epoch, step, global_step, opt_steps, updated, wrap,
                   best_result, files, saved, mask_calls, train_fwd, gradVars,
                   logVars, maskVars, setupVars>>

\* line 349 does not hold
EvalSkip ==
    /\ pc = "eval_check"
    /\ ~ShouldEvaluate(do_eval, global_step, save_steps)
    /\ pc' = "stop_check"
    /\ UNCHANGED <<config, epoch, step, global_step, opt_steps, updated, wrap,
                   best_result, files, saved, flowVars, gradVars, logVars,
                   maskVars, setupVars>>

\* line 390: train_loss / global_step raises ZeroDivisionError
EvalCrash ==
    /\ pc = "evaluating"
    /\ global_step = 0
    /\ pc' = "failed"
    /\ UNCHANGED <<config, epoch, step, global_step, opt_steps, updated, wrap,
                   best_result, files, saved, flowVars, gradVars, logVars,
                   maskVars, setupVars>>

\* lines 390-465: the metrics, the checkpoint and the pool
EvalFinish ==
    /\ pc = "evaluating"
    /\ global_step # 0
    /\ \E f1 \in F1Values :
         LET path == CheckpointPath(global_step, f1)
             written == files \cup {path}                          \* line 435
             ranked == SortByF1(Append(best_result, <<f1, path>>)) \* 436-438
         IN /\ saved' = Append(saved, <<f1, path>>)
            /\ sents' = SentsAfter(eval_family, sents, SentsLines(global_step))  \* 399-415
            /\ IF RemoveFails(written, ranked)
               THEN /\ best_result' = PopOverflow(ranked)
                    /\ files' = written
                    /\ eval_results' = eval_results
                    /\ pc' = "failed"
               ELSE /\ best_result' = PopOverflow(ranked)
                    /\ files' = RemoveEvicted(written, ranked)
                    /\ eval_results' =                            \* 443-465
                         AppendLine(eval_results, ResultLine(eval_family, global_step, f1))
                    /\ pc' = "stop_check"
    /\ UNCHANGED <<config, epoch, step, global_step, opt_steps, updated, wrap,
                   flowVars, gradVars, maskVars, setupVars>>

\* lines 467-469: stop when the step budget is reached
StopBreak ==
    /\ pc = "stop_check"
    /\ ReachedMaxSteps(global_step, max_train_steps)
    /\ wrap' = TRUE
    /\ epoch' = epoch + 1
    /\ pc' = "epoch"
    /\ UNCHANGED <<config, step, global_step, opt_steps, updated,
                   best_result, files, saved, flowVars, gradVars, logVars,
                   maskVars, setupVars>>

\* line 299: the next micro-batch of the epoch
NextBatch ==
    /\ pc = "stop_check"
    /\ ~ReachedMaxSteps(global_step, max_train_steps)
    /\ step < num_batches - 1
    /\ step' = step + 1
    /\ pc' = "batch"
    /\ UNCHANGED <<config, epoch, global_step, opt_steps, updated, wrap,
                   best_result, files, saved, flowVars, gradVars, logVars,
                   maskVars, setupVars>>

\* lines 299/295: the epoch's batches are exhausted
EpochEnd ==
    /\ pc = "stop_check"
    /\ ~ReachedMaxSteps(global_step, max_train_steps)
    /\ step = num_batches - 1
    /\ epoch' = epoch + 1
    /\ pc' = "epoch"
    /\ UNCHANGED <<config, step, global_step, opt_steps, updated, wrap,
                   best_result, files, saved, flowVars, gradVars, logVars,
                   maskVars, setupVars>>

\* lines 470-608: the test round on the test set of the first task
TestRound ==
    /\ pc = "test"
    /\ input_ids' = EvalInput("features", input_ids)            \* line 516
    /\ fwd_seen' = fwd_seen \cup {<<"test", input_ids'>>}        \* lines 517-522
    /\ training' = EvalMode(training)                           \* line 509
    /\ fwd_modes' = fwd_modes \cup {<<"test", EvalMode(training)>>}
    /\ sents' = SentsAfter(eval_family, sents, SentsLines(-1))              \* lines 555-571
    /\ \E f1 \in F1Values :                                      \* lines 586-608
         eval_results' = AppendLine(eval_results,
                             ResultLine(eval_family, TestStepLabel(global_step), f1))
    /\ pc' = "done"
    /\ UNCHANGED <<config, epoch, step, global_step, opt_steps, updated, wrap,
                   best_result, files, saved, mask_calls, train_fwd, gradVars,
                   maskVars, setupVars>>

Next ==
    \/ EpochStart
    \/ TrainEnd
    \/ MicroBatch
    \/ EvalStart
    \/ EvalSkip
    \/ EvalCrash
    \/ EvalFinish
    \/ StopBreak
    \/ NextBatch
    \/ EpochEnd
    \/ TestRound

Spec == Init /\ [][Next]_vars

(***************************************************************************)
(* mask_tokens(): one call on every batch within the bounds.               *)
(***************************************************************************)
LoopIdle ==
    /\ gradient_accumulation_steps = 1
    /\ num_batches = 1
    /\ save_steps = 1
    /\ max_train_steps = 0
    /\ num_train_epochs = 0
    /\ pc = "idle"
    /\ epoch = 0
    /\ step = 0
    /\ global_step = 0
    /\ opt_steps = 0
    /\ updated = FALSE
    /\ wrap = FALSE
    /\ best_result = <<>>
    /\ files = {}
    /\ saved = <<>>
    /\ mft = FALSE
    /\ eval_family = "csc"
    /\ input_ids = "none"
    /\ mask_calls = 0
    /\ train_fwd = 0
    /\ fwd_seen = {}
    /\ training = "train"
    /\ fwd_modes = {}
    /\ grad_window = {}
    /\ consumed = <<>>
    /\ eval_results = <<>>
    /\ sents = <<>>

TrainIdle == LoopIdle /\ do_eval = FALSE /\ do_test = FALSE

InitMask ==
    /\ TrainIdle
    /\ SetupIdle
    /\ m_pc = "call"
    /\ \E sh \in Shapes :
         /\ m_inputs \in Tensors(sh[1], sh[2])
         /\ m_targets \in Tensors(sh[1], sh[2])
         /\ m_task_ids \in [1..sh[1] -> {0, 1}]
    /\ m_mode \in Modes
    /\ m_rate \in Rates
    /\ m_out = <<>>

\* lines 27-49 with a mask_mode the function knows
MaskTokens ==
    /\ m_pc = "call"
    /\ m_mode \in {"noerror", "error", "all"}
    /\ LET prob == ProbabilityMatrix(m_inputs, m_targets, m_task_ids, m_mode, m_rate) IN
       \E masked_indices \in [RowsOf(m_inputs) -> [ColsOf(m_inputs) -> BOOLEAN]] :
         /\ \A i \in RowsOf(m_inputs), j \in ColsOf(m_inputs) : masked_indices[i][j] \in Bernoulli(prob[i][j])
         /\ m_out' = ApplyMask(m_inputs, masked_indices)
         /\ m_inputs' = CallerTensor(m_inputs, ApplyMask(m_inputs, masked_indices))
    /\ m_pc' = "returned"
    /\ UNCHANGED <<trainVars, setupVars, m_targets, m_task_ids, m_mode, m_rate>>

\* line 45: the assert fails for any other mask_mode
MaskTokensAssert ==
    /\ m_pc = "call"
    /\ m_mode \notin {"noerror", "error", "all"}
    /\ m_pc' = "raised"
    /\ UNCHANGED <<trainVars, setupVars, m_inputs, m_targets, m_task_ids, m_mode, m_rate, m_out>>

NextMask ==
    \/ MaskTokens
    \/ MaskTokensAssert

SpecMask == InitMask /\ [][NextMask]_vars

(***************************************************************************)
(* main(): start-up, data loading and the rounds run on the loaded data.   *)
(* The training loop itself is the subject of Spec; here it is the         *)
(* sequence of its micro-batches and evaluation rounds.                    *)
(***************************************************************************)
\* the state of main() at line 157, for every configuration within the bounds
InitSetup ==
    /\ LoopIdle
    /\ do_eval \in BOOLEAN
    /\ do_test \in BOOLEAN
    /\ MaskIdle
    /\ s_pc = "validate"
    /\ task_names \in TaskLists
    /\ do_train \in BOOLEAN
    /\ freeze_lm \in BOOLEAN
    /\ print_para_names \in BOOLEAN
    /\ s_i = 1
    /\ task_name = "unset"
    /\ processors = <<>>
    /\ label_list = NoLabels
    /\ labels_used = LabelsUnused
    /\ data_task = "unset"
    /\ requires_grad = <<>>
    /\ events = <<>>
    /\ rounds = {}
    /\ s_steps = 0
    /\ s_error = "none"

\* lines 186-188, 269-270, 478-479: for a SEQ-family task the label list is
\* built from the examples just loaded and the features are built with it
BuildFeatures(task, key) ==
    IF Family(task) = "seq"
    THEN \E ls \in LabelSets :
           /\ label_list' = GetLabelList(ls)
           /\ labels_used' = [labels_used EXCEPT ![key] = GetLabelList(ls)]
    ELSE UNCHANGED <<label_list, labels_used>>

\* lines 159-161: one iteration of the check of the task names
ValidateTask ==

    /\ s_pc = "validate"
    /\ task_name' = task_names[s_i]
    /\ IF ~TaskKnown(task_names[s_i])
       THEN /\ s_pc' = "failed"                                \* line 161
            /\ s_error' = "ValueError"
            /\ s_i' = s_i
       ELSE /\ s_error' = s_error
            /\ IF s_i < Len(task_names)
               THEN s_pc' = s_pc /\ s_i' = s_i + 1
               ELSE s_pc' = "processors" /\ s_i' = 1
    /\ UNCHANGED <<trainVars, maskVars, task_names, do_train, freeze_lm,
                   print_para_names, processors, label_list, labels_used,
                   data_task, requires_grad, events, rounds, s_steps>>

\* lines 165-166: processors[task_name] = processors_all[task_name]()
MakeProcessor ==

    /\ s_pc = "processors"
    /\ task_name' = task_names[s_i]
    /\ IF task_names[s_i] \notin ProcessorsAll
       THEN /\ s_pc' = "failed"                                \* KeyError
            /\ s_error' = "KeyError"
            /\ s_i' = s_i
            /\ processors' = processors
       ELSE /\ s_error' = s_error
            /\ processors' =
                 IF \E k \in DOMAIN processors : processors[k] = task_names[s_i]
                 THEN processors
                 ELSE Append(processors, task_names[s_i])
            /\ IF s_i < Len(task_names)
               THEN s_pc' = s_pc /\ s_i' = s_i + 1
               ELSE s_pc' = "tokenizer" /\ s_i' = 1
    /\ UNCHANGED <<trainVars, maskVars, task_names, do_train, freeze_lm,
                   print_para_names, label_list, labels_used, data_task,
                   requires_grad, events, rounds, s_steps>>

\* lines 171-176: AutoTokenizer.from_pretrained
LoadTokenizer ==

    /\ s_pc = "tokenizer"
    /\ events' = Append(events, Ev("tokenizer", "none"))
    /\ s_pc' = IF do_train THEN "load_train" ELSE "after_train"
    /\ UNCHANGED <<trainVars, maskVars, task_names, do_train, freeze_lm,
                   print_para_names, s_i, task_name, processors, label_list,
                   labels_used, data_task, requires_grad, rounds, s_steps,
                   s_error>>

\* lines 179-188: the training examples and features of one task
LoadTrain ==

    /\ s_pc = "load_train"
    /\ task_name' = processors[s_i]
    /\ events' = Append(events, Ev("train_examples", processors[s_i]))
    /\ BuildFeatures(processors[s_i], processors[s_i])
    /\ IF s_i < Len(processors)
       THEN s_pc' = s_pc /\ s_i' = s_i + 1
       ELSE s_pc' = "model" /\ s_i' = 1
    /\ UNCHANGED <<trainVars, maskVars, task_names, do_train, freeze_lm,
                   print_para_names, processors, data_task, requires_grad,
                   rounds, s_steps, s_error>>

\* lines 209-228: the model is loaded, every parameter trainable
LoadModel ==

    /\ s_pc = "model"
    /\ requires_grad' = [n \in ParamNames |-> TRUE]
    /\ events' = Append(events, Ev("model", "none"))
    /\ s_pc' = IF print_para_names THEN "print_names" ELSE "freeze"
    /\ UNCHANGED <<trainVars, maskVars, task_names, do_train, freeze_lm,
                   print_para_names, s_i, task_name, processors, label_list,
                   labels_used, data_task, rounds, s_steps, s_error>>

\* lines 229-235: print the names and return
PrintParaNames ==

    /\ s_pc = "print_names"
    /\ requires_grad' = Freeze(requires_grad)
    /\ events' = Append(events, Ev("freeze", "print"))
    /\ s_pc' = "returned"
    /\ UNCHANGED <<trainVars, maskVars, task_names, do_train, freeze_lm,
                   print_para_names, s_i, task_name, processors, label_list,
                   labels_used, data_task, rounds, s_steps, s_error>>

\* lines 238-243: freeze the parameters outside the classifiers
FreezeLm ==

    /\ s_pc = "freeze"
    /\ freeze_lm
    /\ requires_grad' = Freeze(requires_grad)
    /\ events' = Append(events, Ev("freeze", "lm"))
    /\ s_pc' = "optimizer"
    /\ UNCHANGED <<trainVars, maskVars, task_names, do_train, freeze_lm,
                   print_para_names, s_i, task_name, processors, label_list,
                   labels_used, data_task, rounds, s_steps, s_error>>

\* line 246: torch.optim.AdamW
BuildOptimizer ==

    /\ \/ s_pc = "optimizer"
       \/ (s_pc = "freeze" /\ ~freeze_lm)
    /\ events' = Append(events, Ev("optimizer", "none"))
    /\ s_pc' = IF do_eval THEN "load_eval" ELSE "train"
    /\ UNCHANGED <<trainVars, maskVars, task_names, do_train, freeze_lm,
                   print_para_names, s_i, task_name, processors, label_list,
                   labels_used, data_task, requires_grad, rounds, s_steps,
                   s_error>>

\* lines 261-283: the dev examples and features
LoadEval ==

    /\ s_pc = "load_eval"
    /\ task_name' = EvalTask(task_names)                           \* line 262
    /\ data_task' = EvalTask(task_names)                           \* lines 263-264
    /\ events' = Append(events, Ev("eval_examples", EvalTask(task_names)))
    /\ BuildFeatures(EvalTask(task_names), "eval")
    /\ s_pc' = "train"
    /\ UNCHANGED <<trainVars, maskVars, task_names, do_train, freeze_lm,
                   print_para_names, s_i, processors, requires_grad, rounds,
                   s_steps, s_error>>

\* lines 299-347: one training micro-batch
RunTrainStep ==

    /\ s_pc = "train"
    /\ s_steps < MaxSetupSteps
    /\ s_steps' = s_steps + 1
    /\ events' = Append(events, Ev("train_step", "none"))
    /\ s_pc' = "cadence"
    /\ UNCHANGED <<trainVars, maskVars, task_names, do_train, freeze_lm,
                   print_para_names, s_i, task_name, processors, label_list,
                   labels_used, data_task, requires_grad, rounds, s_error>>

\* lines 349-465: an evaluation round on the loaded dev data
RunEvalRound ==

    /\ s_pc = "cadence"
    /\ do_eval
    /\ rounds' = rounds \cup {<<"eval", data_task, Family(task_name)>>}
    /\ s_pc' = "train"
    /\ UNCHANGED <<trainVars, maskVars, events, task_names, do_train, freeze_lm,
                   print_para_names, s_i, task_name, processors, label_list,
                   labels_used, data_task, requires_grad, s_steps, s_error>>

\* line 349 does not hold
RunNoEval ==

    /\ s_pc = "cadence"
    /\ s_pc' = "train"
    /\ UNCHANGED <<trainVars, maskVars, task_names, do_train, freeze_lm,
                   print_para_names, s_i, task_name, processors, label_list,
                   labels_used, data_task, requires_grad, events, rounds,
                   s_steps, s_error>>

\* lines 295-298, 467-469: the training loop ends
RunTrainEnd ==

    /\ s_pc = "train"
    /\ s_pc' = "after_train"
    /\ UNCHANGED <<trainVars, maskVars, task_names, do_train, freeze_lm,
                   print_para_names, s_i, task_name, processors, label_list,
                   labels_used, data_task, requires_grad, events, rounds,
                   s_steps, s_error>>

\* lines 470-501: the test examples and features, and the model
LoadTest ==

    /\ s_pc = "after_train"
    /\ do_test
    /\ task_name' = EvalTask(task_names)                           \* line 471
    /\ data_task' = EvalTask(task_names)                           \* lines 472-473
    /\ events' = Append(events, Ev("test_examples", EvalTask(task_names)))
    /\ BuildFeatures(EvalTask(task_names), "test")
    /\ s_pc' = "test_round"
    /\ UNCHANGED <<trainVars, maskVars, task_names, do_train, freeze_lm,
                   print_para_names, s_i, processors, requires_grad, rounds,
                   s_steps, s_error>>

\* lines 503-608: the test round
RunTestRound ==

    /\ s_pc = "test_round"
    /\ rounds' = rounds \cup {<<"test", data_task, Family(task_name)>>}
    /\ s_pc' = "finished"
    /\ UNCHANGED <<trainVars, maskVars, events, task_names, do_train, freeze_lm,
                   print_para_names, s_i, task_name, processors, label_list,
                   labels_used, data_task, requires_grad, s_steps, s_error>>

\* line 470: no test round
Finish ==

    /\ s_pc = "after_train"
    /\ ~do_test
    /\ s_pc' = "finished"
    /\ UNCHANGED <<trainVars, maskVars, task_names, do_train, freeze_lm,
                   print_para_names, s_i, task_name, processors, label_list,
                   labels_used, data_task, requires_grad, events, rounds,
                   s_steps, s_error>>

NextSetup ==
    \/ ValidateTask
    \/ MakeProcessor
    \/ LoadTokenizer
    \/ LoadTrain
    \/ LoadModel
    \/ PrintParaNames
    \/ FreezeLm
    \/ BuildOptimizer
    \/ LoadEval
    \/ RunTrainStep
    \/ RunEvalRound
    \/ RunNoEval
    \/ RunTrainEnd
    \/ LoadTest
    \/ RunTestRound
    \/ Finish

SpecSetup == InitSetup /\ [][NextSetup]_vars

(***************************************************************************)
(* Properties of the checkpoint pool (Spec).                               *)
(***************************************************************************)
F1sOf(entries) == [i \in DOMAIN entries |-> entries[i][1]]
InPool(e) == \E k \in DOMAIN best_result : best_result[k] = e
CountF1(entries, v) == Cardinality({i \in DOMAIN entries : entries[i][1] = v})

\* C1: after any sequence of evaluation rounds the checkpoint pool
\* best_result holds at most 3 entries.
C1_PoolAtMostThree == Len(best_result) <= 3

\* a fourth round has completed and the pool is full
C1_Witness == Len(saved) >= 4 /\ Len(best_result) = 3 /\ pc = "stop_check"

\* C2: the F1 values in the pool are exactly the (up to) three highest F1
\* values of all rounds saved so far: the pool has min(3, rounds) entries,
\* each of them a saved round, and no round left out has a higher F1 than a
\* round kept; saving 80, 85, 70, 90 in that order leaves 90, 85, 80 and
\* deletes the checkpoint of 70.
C2_PoolIsTopThree ==
    /\ Len(best_result) = (IF Len(saved) < 3 THEN Len(saved) ELSE 3)
    /\ \A v \in F1Values : CountF1(best_result, v) <= CountF1(saved, v)
    /\ \A v, w \in F1Values :
         (CountF1(best_result, v) < CountF1(saved, v) /\ CountF1(best_result, w) > 0)
            => v <= w
    /\ F1sOf(saved) = <<80, 85, 70, 90>>
         => /\ F1sOf(best_result) = <<90, 85, 80>>
            /\ saved[3][2] \notin files
            /\ \A k \in {1, 2, 4} : saved[k][2] \in files

\* the scenario of the claim has run
C2_Witness ==
    /\ F1sOf(saved) = <<80, 85, 70, 90>>
    /\ F1sOf(best_result) = <<90, 85, 80>>
    /\ saved[3][2] \notin files

\* C3: after every evaluation round the pool is ordered by F1, highest
\* first (non-increasing).
C3_PoolSortedDescending ==
    \A i, j \in DOMAIN best_result : i < j => best_result[i][1] >= best_result[j][1]

\* rounds arrived in increasing F1 order and the pool holds them reordered
C3_Witness ==
    /\ Len(saved) >= 3
    /\ saved[1][1] < saved[2][1]
    /\ saved[2][1] < saved[3][1]
    /\ Len(best_result) = 3
    /\ pc = "stop_check"

\* C4: every checkpoint file written during the run whose entry is not in
\* the pool is gone from storage, in every state after the round that
\* evicted it (so before the next micro-batch).
C4_EvictedFilesDeleted ==
    \A i \in DOMAIN saved : ~InPool(saved[i]) => saved[i][2] \notin files

\* an entry has been evicted and the next micro-batch is about to run
C4_Witness ==
    /\ pc = "batch"
    /\ \E i \in DOMAIN saved : ~InPool(saved[i]) /\ saved[i][2] \notin files

\* C5: a round whose F1 equals the lowest F1 of a full pool is itself the
\* one evicted (the pool is unchanged and the new file is deleted); among
\* saved entries of equal F1 a later one is never kept while an earlier one is
\* evicted.
C5_TieStep ==
    (/\ Len(saved') = Len(saved) + 1
     /\ Len(best_result) = 3
     /\ saved'[Len(saved')][1] = best_result[3][1])
    => (/\ best_result' = best_result
        /\ saved'[Len(saved')][2] \notin files'
        /\ \A k \in DOMAIN best_result : best_result[k][2] \in files')
C5_LaterEvictedFirst ==
    \A i, j \in DOMAIN saved :
        (i < j /\ saved[i][1] = saved[j][1] /\ InPool(saved[j])) => InPool(saved[i])
C5_TieKeepsEarlier == [][C5_TieStep /\ C5_LaterEvictedFirst']_vars

\* the newest round tied with the lowest entry of the full pool and was evicted
C5_Witness ==
    /\ Len(saved) >= 4
    /\ Len(best_result) = 3
    /\ saved[Len(saved)][1] = best_result[3][1]
    /\ ~InPool(saved[Len(saved)])
    /\ saved[Len(saved)][2] \notin files

(***************************************************************************)
(* Properties of the training loop (Spec).                                 *)
(***************************************************************************)
\* the condition of the claim, stated on its own terms
UpdateDue ==
    \/ \E k \in 1..(step + 1) : step + 1 = k * gradient_accumulation_steps
    \/ step = num_batches - 1

\* C6: global_step grows by exactly 1 at, and only at, a parameter update,
\* and the update happens at micro-batch `step` exactly when step+1 is a
\* multiple of gradient_accumulation_steps or step is the last micro-batch.
C6_Step ==
    /\ global_step' # global_step
         => (pc = "batch" /\ global_step' = global_step + 1 /\ opt_steps' = opt_steps + 1)
    /\ opt_steps' # opt_steps => global_step' = global_step + 1
    /\ (pc = "batch" /\ pc' # "batch")
         => /\ UpdateDue => (opt_steps' = opt_steps + 1 /\ global_step' = global_step + 1)
            /\ ~UpdateDue => (opt_steps' = opt_steps /\ global_step' = global_step)
C6_GlobalStepCountsUpdates == [][C6_Step /\ (global_step = opt_steps)']_vars

\* an update on the last micro-batch of an epoch that closes a partial window
C6_Witness ==
    /\ pc = "eval_check"
    /\ updated
    /\ (step + 1) % gradient_accumulation_steps # 0
    /\ step = num_batches - 1
    /\ global_step >= 2

\* C7: an evaluation round starts exactly when do_eval is set and the
\* micro-batch just processed performed a parameter update that brought
\* global_step to a multiple of save_steps.
C7_EvalStep ==
    pc = "eval_check"
      => ((pc' = "evaluating")
            <=> (do_eval /\ updated /\ global_step % save_steps = 0))
C7_EvalExactlyOnCadence == [][C7_EvalStep]_vars

\* C8: global_step never exceeds max_train_steps; a micro-batch is only
\* ever processed while global_step < max_train_steps, and once the check
\* after a micro-batch finds global_step >= max_train_steps nothing but the
\* exit of the loops follows.
C8_Bounded ==
    /\ global_step <= max_train_steps
    /\ pc = "batch" => (global_step < max_train_steps /\ ~wrap)
    /\ wrap => (pc \in {"epoch", "test", "done"} /\ global_step >= max_train_steps)
C8_StopStep ==
    (global_step >= max_train_steps /\ pc \in {"stop_check", "epoch", "test", "done"})
      => /\ pc' \in {"epoch", "test", "done"}
         /\ UNCHANGED <<global_step, opt_steps, best_result, files, saved, step>>
C8_StopsAtMaxSteps == [][C8_StopStep /\ C8_Bounded']_vars

\* the run stopped in the middle of an epoch
C8_Witness ==
    /\ pc = "done"
    /\ wrap
    /\ step < num_batches - 1
    /\ global_step = max_train_steps
    /\ global_step >= 1

(***************************************************************************)
(* Properties of mask_tokens (SpecMask).                                   *)
(***************************************************************************)
RowIdx == RowsOf(m_inputs)
ColIdx == ColsOf(m_inputs)
Changed(i, j) == m_out[i][j] # m_inputs[i][j]

\* C9: with mask_mode "noerror", a position whose returned token differs
\* from the original input has original input = target.
C9_NoErrorMasksOnlyClean ==
    (m_pc = "returned" /\ m_mode = "noerror")
      => \A i \in RowIdx, j \in ColIdx :
            Changed(i, j) => m_inputs[i][j] = m_targets[i][j]

\* a clean position of a CSC row was masked under "noerror"
C9_Witness ==
    /\ m_pc = "returned"
    /\ m_mode = "noerror"
    /\ \E i \in RowIdx, j \in ColIdx :
         Changed(i, j) /\ m_inputs[i][j] = m_targets[i][j]
    /\ \E i \in RowIdx, j \in ColIdx :
         m_task_ids[i] = 1 /\ m_inputs[i][j] # m_targets[i][j]

\* C10: with mask_mode "error", only positions with input # target can be
\* masked: a row equal to its target everywhere is returned unchanged, and
\* in a row with one erroneous position no other position changes.
ErrorPositions(i) == {j \in ColIdx : m_inputs[i][j] # m_targets[i][j]}
C10_ErrorMasksOnlyErrors ==
    (m_pc = "returned" /\ m_mode = "error")
      => /\ \A i \in RowIdx, j \in ColIdx :
               Changed(i, j) => m_inputs[i][j] # m_targets[i][j]
         /\ \A i \in RowIdx : ErrorPositions(i) = {} => m_out[i] = m_inputs[i]
         /\ \A i \in RowIdx, e \in ColIdx :
               ErrorPositions(i) = {e}
                 => \A j \in ColIdx \ {e} : m_out[i][j] = m_inputs[i][j]

\* the scenario of the claim: a clean CSC row next to a CSC row whose single
\* erroneous position was masked
C10_Witness ==
    /\ m_pc = "returned"
    /\ m_mode = "error"
    /\ \E i, k \in RowIdx :
         /\ m_task_ids[i] = 1 /\ m_task_ids[k] = 1
         /\ ErrorPositions(i) = {}
         /\ \A j \in ColIdx : ~IsSpecial(m_inputs[i][j])
         /\ m_out[i] = m_inputs[i]
         /\ \E e \in ColIdx : ErrorPositions(k) = {e} /\ Changed(k, e)

\* C11: a row whose task_id is not 1 is returned unchanged, for every
\* mask_mode, every rate and every outcome of the draws, also next to CSC rows.
C11_SeqRowsUntouched ==
    m_pc = "returned"
      => \A i \in RowIdx : m_task_ids[i] # 1 => m_out[i] = m_inputs[i]

\* rate 1.0, mode "all": an ordinary-token SEQ row is unchanged while the CSC
\* row of the same batch is masked
C11_Witness ==
    /\ m_pc = "returned"
    /\ m_rate = 100
    /\ m_mode = "all"
    /\ \E i, k \in RowIdx :
         /\ m_task_ids[i] # 1
         /\ \A j \in ColIdx : ~IsSpecial(m_inputs[i][j])
         /\ m_out[i] = m_inputs[i]
         /\ m_task_ids[k] = 1
         /\ \E j \in ColIdx : Changed(k, j)

\* C12: a position holding a special token is never replaced, under every
\* mask_mode and every rate.
C12_SpecialNeverMasked ==
    m_pc = "returned"
      => \A i \in RowIdx, j \in ColIdx :
            IsSpecial(m_inputs[i][j]) => m_out[i][j] = m_inputs[i][j]

\* rate 1.0, mode "error", on a CSC row: the erroneous ordinary position is
\* masked, the special one (which also differs from its target) is not
C12_Witness ==
    /\ m_pc = "returned"
    /\ m_rate = 100
    /\ m_mode = "error"
    /\ \E i \in RowIdx, j, k \in ColIdx :
         /\ m_task_ids[i] = 1
         /\ IsSpecial(m_inputs[i][j])
         /\ m_inputs[i][j] # m_targets[i][j]
         /\ m_out[i][j] = m_inputs[i][j]
         /\ Changed(i, k)

(***************************************************************************)
(* Properties of the data flow, the logs and the gradients (Spec).         *)
(***************************************************************************)
\* C13: with mft every training micro-batch gets its own call of
\* mask_tokens and its forward pass reads the masked inputs; no forward pass
\* of an evaluation round or of the test round ever reads masked inputs.
C13_Step ==
    train_fwd' = train_fwd + 1
      => /\ mft => (mask_calls' = mask_calls + 1 /\ input_ids' = "masked")
         /\ ~mft => (mask_calls' = mask_calls /\ input_ids' = "features")
C13_State ==
    /\ mft => mask_calls = train_fwd
    /\ \A f \in fwd_seen : f[1] \in {"eval", "test"} => f[2] = "features"
    /\ \A f \in fwd_seen : (mft /\ f[1] = "train") => f[2] = "masked"
C13_MaskingOnlyInTraining == [][C13_Step /\ C13_State']_vars

\* masked training batches, then an evaluation round and the test round
C13_Witness ==
    /\ mft
    /\ pc = "done"
    /\ mask_calls >= 2
    /\ fwd_seen = {<<"train", "masked">>, <<"eval", "features">>, <<"test", "features">>}

\* C17: eval_results.txt only ever grows, by one line at its end per
\* completed round (evaluation or test); sents.* are written only for a
\* CSC-family task and then hold the lines of the latest round only.
RoundCompleted ==
    \/ (pc = "evaluating" /\ pc' = "stop_check")
    \/ (pc = "test" /\ pc' = "done")
C17_Step ==
    /\ eval_results' # eval_results => RoundCompleted
    /\ RoundCompleted
         => /\ Len(eval_results') = Len(eval_results) + 1
            /\ SubSeq(eval_results', 1, Len(eval_results)) = eval_results
            /\ eval_results'[Len(eval_results')][1] = eval_family
    /\ sents' # sents => (eval_family = "csc" /\ (RoundCompleted \/ pc' = "failed"))
    /\ (RoundCompleted /\ eval_family = "csc")
         => sents' = <<SentsLines(IF pc = "test" THEN -1 ELSE global_step)>>
    /\ eval_family = "seq" => sents' = sents
C17_ResultsAppendOnly == [][C17_Step]_vars

\* an output_dir with files of an earlier run, after two evaluation rounds
C17_Witness ==
    /\ eval_family = "csc"
    /\ Len(saved) = 2
    /\ Len(eval_results) = 3
    /\ eval_results[1] = OldLine
    /\ sents = <<SentsLines(global_step)>>
    /\ pc = "stop_check"

\* C19: an evaluation round runs only with global_step >= 1, after the
\* first parameter update.
C19_EvalAfterFirstUpdate ==
    pc = "evaluating" => (global_step >= 1 /\ opt_steps >= 1)

\* C20: every optimizer.step() consumes the gradients of exactly the
\* micro-batches processed since the previous one: between 1 and
\* gradient_accumulation_steps of them, all of one epoch, no micro-batch in
\* two windows, none left over at an epoch boundary.
Windows == {consumed[k] : k \in DOMAIN consumed}
C20_WindowsExact ==
    /\ Len(consumed) = opt_steps
    /\ \A k \in DOMAIN consumed :
         /\ Cardinality(consumed[k]) >= 1
         /\ Cardinality(consumed[k]) <= gradient_accumulation_steps
         /\ \A a, b \in consumed[k] : a[1] = b[1]
         /\ consumed[k] \cap grad_window = {}
         /\ \A l \in (k + 1)..Len(consumed) : consumed[k] \cap consumed[l] = {}
    /\ Cardinality(UNION Windows \cup grad_window) = train_fwd
    /\ Cardinality(grad_window) < gradient_accumulation_steps
    /\ pc \in {"epoch", "test", "done"} => grad_window = {}
    /\ (updated /\ pc \in {"eval_check", "evaluating", "stop_check"}) => grad_window = {}

\* a full window followed by the partial window that closes the epoch
C20_Witness ==
    /\ pc = "epoch"
    /\ Len(consumed) >= 2
    /\ Cardinality(consumed[1]) = 2
    /\ Cardinality(consumed[2]) = 1
    /\ train_fwd = 3

(***************************************************************************)
(* Properties of start-up and data loading (SpecSetup).                    *)
(***************************************************************************)
\* the first configured task
FirstTask == task_names[1]
FirstFamily == IF FirstTask \in TaskClassCsc THEN "csc" ELSE "seq"

\* the numbers of the events of one kind
EventsOf(kind) == {i \in DOMAIN events : events[i][1] = kind}

\* C14: for a SEQ-family task the label list the evaluation features and the
\* test features are built with is the list built from the training labels
\* and used for the training features of that task.
C14_LabelListFixed ==
    \A k \in {"eval", "test"} :
        (do_train /\ labels_used[k] # NoLabels)
            => labels_used[k] = labels_used[FirstTask]

\* some configured task name is not a known task
HasUnknownTask == \E i \in DOMAIN task_names : task_names[i] \notin ProcessorsAll

\* C15: if any configured task name is unknown, the run never gets past the
\* check of the names: it fails there with the ValueError of line 161, with
\* no processor built, no tokenizer, model or example loaded and no training
\* step, evaluation round or test round run, wherever the name is in the list.
C15_UnknownTaskFailsFirst ==
    HasUnknownTask =>
        /\ s_pc \in {"validate", "failed"}
        /\ s_pc = "failed" => s_error = "ValueError"
        /\ processors = <<>>
        /\ events = <<>>
        /\ rounds = {}
        /\ s_steps = 0
        /\ requires_grad = <<>>

\* C15 witness: a run that failed on an unknown name in second place, after a
\* known first name, with nothing loaded.
C15_Witness ==
    /\ Len(task_names) = 2
    /\ task_names[1] \in ProcessorsAll
    /\ task_names[2] \notin ProcessorsAll
    /\ s_pc = "failed"
    /\ s_error = "ValueError"
    /\ events = <<>>

\* C16: every evaluation round and the test round load and score the data of
\* the first configured task, and decode by the family of that task.
C16_FirstTaskOnly ==
    /\ \A r \in rounds : r[2] = FirstTask /\ r[3] = FirstFamily
    /\ \A i \in DOMAIN events :
         events[i][1] \in {"eval_examples", "test_examples"}
             => events[i][2] = FirstTask

\* C16 witness: two tasks of different families were trained on, and an
\* evaluation round and the test round have run on the first one.
C16_Witness ==
    /\ Len(task_names) = 2
    /\ task_names[1] \in TaskClassSeq
    /\ task_names[2] \in TaskClassCsc
    /\ EventsOf("train_examples") # {}
    /\ <<"eval", task_names[1], "seq">> \in rounds
    /\ <<"test", task_names[1], "seq">> \in rounds

\* the name has one of the trainable fragments at some offset
HasFragment(n) ==
    \E nd \in ClassifierParams :
        \E k \in 0..(Len(n) - Len(nd)) : SubSeq(n, k + 1, k + Len(nd)) = nd

\* C18: with freeze_lm the freeze is applied at most once, it precedes the
\* construction of the optimizer and every training micro-batch, and once it
\* is applied a parameter is trainable exactly when its name has one of the
\* trainable fragments in it.
C18_FreezeOnceBeforeOptimizer ==
    freeze_lm =>
        /\ Cardinality(EventsOf("freeze")) <= 1
        /\ \A i \in EventsOf("optimizer") \cup EventsOf("train_step") :
             \E j \in EventsOf("freeze") : j < i
        /\ EventsOf("freeze") # {} =>
             \A n \in DOMAIN requires_grad : requires_grad[n] = HasFragment(n)

\* C18 witness: the freeze was applied, the optimizer built and a micro-batch
\* trained; a name with a fragment in the middle is trainable and a name
\* with none is frozen.
C18_Witness ==
    /\ freeze_lm
    /\ ~print_para_names
    /\ EventsOf("freeze") # {}
    /\ EventsOf("optimizer") # {}
    /\ s_steps >= 1
    /\ requires_grad[<<"t", "q", "_">>]
    /\ ~requires_grad[<<"q", "q", "t">>]

(***************************************************************************)
(* Properties of the end of the training run (Spec).                       *)
(***************************************************************************)
\* the training loop has been left without a failure
TrainingOver == pc \in {"test", "done"}

\* C21: when the training loop has ended without a failure, global_step
\* equals max_train_steps, whether the budget was given or derived from
\* num_train_epochs.
C21_EndsAtMaxSteps == TrainingOver => global_step = max_train_steps

(***************************************************************************)
(* Properties of the checkpoint files (Spec).                              *)
(***************************************************************************)
\* C22: every path in the pool names a checkpoint file present on storage,
\* no two pool entries hold the same path, and a file deleted by an
\* eviction is not referenced by an entry that stays in the pool.
C22_State ==
    /\ \A k \in DOMAIN best_result : best_result[k][2] \in files
    /\ \A k, l \in DOMAIN best_result : k # l => best_result[k][2] # best_result[l][2]
C22_Step ==
    \A k \in DOMAIN best_result' : best_result'[k][2] \notin (files \ files')
C22_PoolFilesExist == [](C22_State) /\ [][C22_Step]_vars

\* C22 witness: after a round that evicted an entry the pool is full and
\* holds two rounds of equal F1, each with its own file.
C22_Witness ==
    /\ pc = "stop_check"
    /\ Len(best_result) = 3
    /\ \E i \in DOMAIN saved : saved[i][2] \notin files
    /\ \E k, l \in DOMAIN best_result :
         /\ k # l
         /\ best_result[k][1] = best_result[l][1]
         /\ best_result[k][2] # best_result[l][2]
         /\ {best_result[k][2], best_result[l][2]} \subseteq files

(***************************************************************************)
(* The frame of mask_tokens (SpecMask).                                    *)
(***************************************************************************)
\* C23: the tensor mask_tokens returns has the shape of the inputs and
\* holds at every position the original token id or the mask-token id; the
\* call changes neither the caller's inputs nor the targets nor the task_ids.
C23_State ==
    m_pc = "returned" =>
        /\ RowsOf(m_out) = RowsOf(m_inputs)
        /\ \A i \in RowsOf(m_out) :
             /\ DOMAIN m_out[i] = DOMAIN m_inputs[i]
             /\ \A j \in DOMAIN m_out[i] : m_out[i][j] \in {m_inputs[i][j], MASK_ID}
C23_Step ==
    /\ m_inputs' = m_inputs
    /\ m_targets' = m_targets
    /\ m_task_ids' = m_task_ids
C23_MaskFrame == [](C23_State) /\ [][C23_Step]_vars

\* C23 witness: a call returned a batch of two positions per row in which
\* one position of a row was masked and another kept its token.
C23_Witness ==
    /\ m_pc = "returned"
    /\ \E i \in RowsOf(m_out) : \E j, k \in DOMAIN m_out[i] :
         /\ m_out[i][j] = MASK_ID
         /\ m_inputs[i][j] # MASK_ID
         /\ m_out[i][k] = m_inputs[i][k]
         /\ m_out[i][k] = CHAR_ID

(***************************************************************************)
(* The mode of the model in the forward passes (Spec).                     *)
(***************************************************************************)
\* C24: every forward pass of an evaluation round or of the test round runs
\* with the model in inference mode and every training forward pass with the
\* model in training mode, also after an evaluation round; the steps of an
\* evaluation round change neither global_step nor the gradients accumulated.
C24_State ==
    /\ \A f \in fwd_modes : f[1] = "train" => f[2] = "train"
    /\ \A f \in fwd_modes : f[1] \in {"eval", "test"} => f[2] = "eval"
    /\ pc = "eval_check" => training = "train"
C24_Step ==
    pc \in {"eval_check", "evaluating"}
      => UNCHANGED <<global_step, opt_steps, grad_window, consumed>>
C24_ModesKeptApart == [](C24_State) /\ [][C24_Step]_vars

\* C24 witness: a training micro-batch has just run after a completed
\* evaluation round.
C24_Witness ==
    /\ pc = "eval_check"
    /\ Len(saved) >= 1
    /\ train_fwd >= 2
    /\ <<"eval", "eval">> \in fwd_modes
    /\ training = "train"

(***************************************************************************)
(* Where checkpoints are written (Spec).                                   *)
(***************************************************************************)
\* the lines of eval_results.txt written by evaluation rounds of this run
EvalLines == {i \in DOMAIN eval_results :
                 eval_results[i][1] \in {"csc", "seq"} /\ eval_results[i][2] >= 0}

\* C25: checkpoint files and pool entries come into being only in the steps
\* of an evaluation round; without do_eval no checkpoint is ever written and
\* the pool stays empty, and with do_eval the checkpoints written so far are
\* as many as the evaluation rounds completed.
C25_State ==
    /\ ~do_eval => (files = {} /\ best_result = <<>> /\ saved = <<>>)
    /\ do_eval => /\ Len(saved) = Cardinality(EvalLines)
                  /\ Cardinality({saved[i][2] : i \in DOMAIN saved}) = Len(saved)
C25_Step ==
    (files' # files \/ saved' # saved \/ best_result' # best_result)
      => (pc = "evaluating" /\ do_eval)
C25_CheckpointsOnlyInEval == [](C25_State) /\ [][C25_Step]_vars

\* C25 witness: a run without do_eval trained for several updates and ended
\* with no checkpoint file and an empty pool.
C25_Witness ==
    /\ ~do_eval
    /\ pc = "done"
    /\ global_step >= 3
    /\ files = {}
    /\ best_result = <<>>

(***************************************************************************)
(* The frame of the test round (Spec).                                     *)
(***************************************************************************)
\* the lines of eval_results.txt labelled with global step -1
TestLines == {i \in DOMAIN eval_results : eval_results[i][2] = -1}

\* C26: the test round leaves the checkpoint pool, the checkpoint files and
\* global_step as they are and adds one line at the end of eval_results.txt,
\* labelled with global step -1; no other step writes such a line.
C26_Step ==
    pc = "test"
      => /\ UNCHANGED <<best_result, files, saved, global_step>>
         /\ Len(eval_results') = Len(eval_results) + 1
         /\ SubSeq(eval_results', 1, Len(eval_results)) = eval_results
         /\ eval_results'[Len(eval_results')][2] = -1
C26_State ==
    Cardinality(TestLines) = (IF do_test /\ pc = "done" THEN 1 ELSE 0)
C26_TestRoundFrame == [](C26_State) /\ [][C26_Step]_vars

\* C26 witness: the test round has run after a training run that left two
\* checkpoints in the pool.
C26_Witness ==
    /\ do_test
    /\ pc = "done"
    /\ global_step >= 2
    /\ Len(best_result) >= 2
    /\ \A k \in DOMAIN best_result : best_result[k][2] \in files
    /\ eval_results[Len(eval_results)][2] = -1

====
